---- MODULE Spec2Model ----
(***************************************************************************)
(* Model of the Hap frame decoder of hapcodec (src/src/lib.rs).            *)
(*                                                                         *)
(* A reader is a byte sequence `input` with a cursor `pos` (the number of  *)
(* bytes consumed).  Bytes are naturals 0..255.  usize is 64 bits wide;    *)
(* a usize that wrapped below zero is kept as the negative integer v that  *)
(* stands for 2^64 + v (no explored input is long enough to bring such a   *)
(* value back to zero).  The explored u32 fields stay below 2^31.          *)
(***************************************************************************)
EXTENDS Integers, Sequences, FiniteSets, TLC

VARIABLES
    build,            \* cfg(feature = "threadpool"): "serial" or "threadpool"
    overflow_checks,  \* whether the build traps on integer overflow
    enc,              \* what the outer preamble was encoded from
    input,            \* the bytes behind the reader r
    pos,              \* bytes of r consumed so far
    pc,               \* where decode_frame stands
    outer_section,    \* decode_frame: raw_section, the outer RawSection
    cur_section,      \* the RawSection handed to decode_texture
    role,             \* which call of decode_texture: "outer", "single", "first", "second"
    dxt5,             \* decode_frame: the first payload of a pair
    result,           \* what decode_frame returned
    tx,               \* the work queue (raw_tx -> raw_rx): items <<uuid, bytes>>
    rx,               \* the result channel (decompressed_tx -> decompressed_rx)
    guard,            \* the worker holding the lock on raw_rx, 0 if none
    worker,           \* per worker: where it stands in its loop, and its item
    infos,            \* decode_texture: chunk_infos
    chunk_data,       \* decode_texture: buf, the chunk data
    indices,          \* decode_texture: indices
    buffer,           \* decode_texture: buffer, one slot per chunk
    queued_count,     \* decode_texture: queued_count
    ci,               \* the chunk the submission loop is at
    received,         \* results taken by the collection loop
    next_uuid,        \* uuids drawn so far (a uuid is never drawn twice)
    dropped,          \* the Decoder was dropped: raw_tx and decompressed_rx are gone
    poisoned,         \* a worker panicked holding the lock on raw_rx
    calls             \* decode_frame calls made on this Decoder, the current one included

(***************************************************************************)
(* Bounds of the explored inputs.                                          *)
(***************************************************************************)
\* longest body of a simple (0xA0 / 0xB0 / unknown compressor) texture section
MaxBody == 3
\* largest number of entries of a chunk table in a complex header
MaxChunks == 2
\* thread_size, the number of workers of the pool
ThreadCount == 2

(***************************************************************************)
(* Program constants.                                                      *)
(***************************************************************************)
HAP_SECITON_CHUNK_SECOND_STAGE_COMPRESSOR_TABLE == 2
HAP_SECTION_CHUNK_SIZE_TABLE == 3
HAP_SECTION_CHUNK_OFFSET_TABLE == 4
\* section_type of the multi-image marker section
MULTI_IMAGE_MARKER == 13

\* 2^24: the first size that does not fit the 3-byte size field
U24 == 16777216

(***************************************************************************)
(* Byte helpers.                                                           *)
(***************************************************************************)
LowNibble(b) == b % 16
HighNibble(b) == b - (b % 16)

SeqSum(s) == LET RECURSIVE go(_)
                 go(i) == IF i > Len(s) THEN 0 ELSE s[i] + go(i + 1)
             IN go(1)

\* bytes p+1 .. p+n of b (0-based range p .. p+n)
Slice(b, p, n) == [i \in 1..n |-> b[p + i]]

\* little-endian value of a byte sequence
LEValue(b) == LET RECURSIVE go(_)
                  go(i) == IF i > Len(b) THEN 0 ELSE b[i] + 256 * go(i + 1)
              IN go(1)

\* little-endian bytes of v, n bytes wide
LEBytes(v, n) == LET RECURSIVE go(_, _)
                     go(x, k) == IF k = 0 THEN <<>> ELSE <<x % 256>> \o go(x \div 256, k - 1)
                 IN go(v, n)

RECURSIVE Flatten(_)
Flatten(ss) == IF ss = <<>> THEN <<>> ELSE Head(ss) \o Flatten(Tail(ss))

Take(q, n) == SubSeq(q, 1, IF n < Len(q) THEN n ELSE Len(q))

\* all sequences over S of length at most n
SeqsUpTo(S, n) == UNION {[1..k -> S] : k \in 0..n}

(***************************************************************************)
(* Results of the decoder entry points.                                    *)
(***************************************************************************)
NoResult == [kind |-> "none", variant |-> "", raw |-> <<>>, raw2 |-> <<>>, code |-> 0]
Err(e, c) == [kind |-> "err", variant |-> e, raw |-> <<>>, raw2 |-> <<>>, code |-> c]
IoError == Err("Io", 0)
SnappyError == Err("Snappy", 0)
\* the thread unwinds: index out of range, slice out of range, arithmetic
\* overflow under overflow checks, capacity overflow
Panic == [kind |-> "panic", variant |-> "", raw |-> <<>>, raw2 |-> <<>>, code |-> 0]
Single(v, r) == [kind |-> "texture", variant |-> v, raw |-> r, raw2 |-> <<>>, code |-> 0]
Pair(r1, r2) == [kind |-> "texture",
                 variant |-> "MultipleImages_ScaledYCoCg_DXT5_Alpha_RGTC1",
                 raw |-> r1, raw2 |-> r2, code |-> 0]

(***************************************************************************)
(* parse_section_header: the 4- or 8-byte section preamble.                *)
(***************************************************************************)
\* a parser that reports 4 header bytes for the extended form as well
parse_section_header_short_count(b, p) ==
    IF Len(b) < p + 4
    THEN [ok |-> FALSE, size |-> 0, section_type |-> 0, header_size |-> 0, pos |-> p]
    ELSE LET section_size == LEValue(Slice(b, p, 3))
             section_type == b[p + 4]
         IN IF section_size = 0
            THEN IF Len(b) < p + 8
                 THEN [ok |-> FALSE, size |-> 0, section_type |-> 0, header_size |-> 0, pos |-> p]
                 ELSE [ok |-> TRUE, size |-> LEValue(Slice(b, p + 4, 4)),
                       section_type |-> section_type, header_size |-> 4, pos |-> p + 8]
            ELSE [ok |-> TRUE, size |-> section_size,
                  section_type |-> section_type, header_size |-> 4, pos |-> p + 4]

\* a parser that reads the extended size as 24 bits
parse_section_header_u24_ext(b, p) ==
    IF Len(b) < p + 4
    THEN [ok |-> FALSE, size |-> 0, section_type |-> 0, header_size |-> 0, pos |-> p]
    ELSE LET section_size == LEValue(Slice(b, p, 3))
             section_type == b[p + 4]
         IN IF section_size = 0
            THEN IF Len(b) < p + 8
                 THEN [ok |-> FALSE, size |-> 0, section_type |-> 0, header_size |-> 0, pos |-> p]
                 ELSE [ok |-> TRUE, size |-> LEValue(Slice(b, p + 4, 3)),
                       section_type |-> section_type, header_size |-> 4 + 4, pos |-> p + 8]
            ELSE [ok |-> TRUE, size |-> section_size,
                  section_type |-> section_type, header_size |-> 4, pos |-> p + 4]

parse_section_header(b, p) ==
    IF Len(b) < p + 4
    THEN [ok |-> FALSE, size |-> 0, section_type |-> 0, header_size |-> 0, pos |-> p]
    ELSE LET section_size == LEValue(Slice(b, p, 3))
             section_type == b[p + 4]
         IN IF section_size = 0
            THEN IF Len(b) < p + 8
                 THEN [ok |-> FALSE, size |-> 0, section_type |-> 0, header_size |-> 0, pos |-> p]
                 ELSE [ok |-> TRUE, size |-> LEValue(Slice(b, p + 4, 4)),
                       section_type |-> section_type, header_size |-> 4 + 4, pos |-> p + 8]
            ELSE [ok |-> TRUE, size |-> section_size,
                  section_type |-> section_type, header_size |-> 4, pos |-> p + 4]

(***************************************************************************)
(* snap::raw::Decoder::decompress_vec: the raw Snappy format.  A varint    *)
(* header gives the decompressed length; then a sequence of elements, a    *)
(* literal (tag & 3 = 0) or a copy with a 1-, 2- or 4-byte offset.         *)
(***************************************************************************)
\* varint header: [ok, value, len].  A header of five bytes or more announces
\* at least 2^28 bytes, which no explored input can produce: it fails either
\* as too big or as a length mismatch.
SnappyHeader(src) ==
    LET RECURSIVE go(_, _, _)
        go(i, shift, acc) ==
            IF i > Len(src) \/ i > 4 THEN [ok |-> FALSE, value |-> 0, len |-> 0]
            ELSE IF src[i] < 128
                 THEN [ok |-> TRUE, value |-> acc + src[i] * shift, len |-> i]
                 ELSE go(i + 1, shift * 128, acc + (src[i] - 128) * shift)
    IN go(1, 1, 0)

\* append len bytes, each copied from offset bytes back (overlapping copy)
SnappyCopy(dst, offset, len) ==
    LET RECURSIVE go(_, _)
        go(d, k) == IF k = 0 THEN d ELSE go(Append(d, d[Len(d) + 1 - offset]), k - 1)
    IN go(dst, len)

SnappyDecompress(src) ==
    IF src = <<>> THEN [ok |-> FALSE, data |-> <<>>]
    ELSE LET hdr == SnappyHeader(src)
             bad == [ok |-> FALSE, data |-> <<>>]
             RECURSIVE go(_, _)
             go(s, dst) ==
                 IF s >= Len(src)
                 THEN IF Len(dst) = hdr.value THEN [ok |-> TRUE, data |-> dst] ELSE bad
                 ELSE LET byte == src[s + 1]
                          tag == byte % 4
                          hi == byte \div 4
                      IN IF tag = 0
                         THEN LET extra == IF hi >= 60 THEN hi - 59 ELSE 0
                                  len == IF extra = 0 THEN hi + 1
                                         ELSE IF s + 1 + extra > Len(src) THEN 0
                                         ELSE LEValue(Slice(src, s + 1, extra)) + 1
                                  from == s + 1 + extra
                              IN IF len = 0 \/ from + len > Len(src)
                                    \/ Len(dst) + len > hdr.value
                                 THEN bad
                                 ELSE go(from + len, dst \o Slice(src, from, len))
                         ELSE LET noff == IF tag = 1 THEN 1 ELSE IF tag = 2 THEN 2 ELSE 4
                                  len == IF tag = 1 THEN 4 + (hi % 8) ELSE 1 + hi
                              IN IF s + 1 + noff > Len(src) THEN bad
                                 ELSE LET lo == LEValue(Slice(src, s + 1, noff))
                                          offset == IF tag = 1 THEN (byte \div 32) * 256 + lo ELSE lo
                                      IN IF offset = 0 \/ offset > Len(dst)
                                            \/ Len(dst) + len > hdr.value
                                         THEN bad
                                         ELSE go(s + 1 + noff, SnappyCopy(dst, offset, len))
         IN IF ~hdr.ok THEN bad ELSE go(hdr.len, <<>>)

(***************************************************************************)
(* decode_second_stage_compressor and wrap_single_texture.                 *)
(***************************************************************************)
\* a table decoder that also takes the high-nibble codes 0xA0 and 0xB0
decode_second_stage_compressor_legacy(compressor) ==
    CASE compressor = 10 \/ compressor = 160 -> [ok |-> TRUE, c |-> "None", code |-> 0]
      [] compressor = 11 \/ compressor = 176 -> [ok |-> TRUE, c |-> "Snappy", code |-> 0]
      [] OTHER -> [ok |-> FALSE, c |-> "", code |-> compressor]

decode_second_stage_compressor(compressor) ==
    CASE compressor = 10 -> [ok |-> TRUE, c |-> "None", code |-> 0]
      [] compressor = 11 -> [ok |-> TRUE, c |-> "Snappy", code |-> 0]
      [] OTHER -> [ok |-> FALSE, c |-> "", code |-> compressor]

\* a wrapper that takes nibble 0x07 for a format
wrap_single_texture_lenient(texture_format, raw) ==
    LET n == texture_format % 16
    IN CASE n = 11 -> Single("RGB_DXT1_BC1", raw)
         [] n = 14 -> Single("RGBA_DXT5_BC3", raw)
         [] n = 15 -> Single("ScaledYCoCg_DXT5_BC3", raw)
         [] n = 12 -> Single("RGBA_BC7", raw)
         [] n = 1 -> Single("Alpha_RGTC1_BC4", raw)
         [] n = 2 -> Single("RGBUnsignedFloat_BC6U", raw)
         [] n = 3 -> Single("RGBSignedFloat_BC6S", raw)
         [] n = 7 -> Single("RGB_DXT1_BC1", raw)
         [] OTHER -> Err("UnknownTextureFormat", n)

\* a wrapper with the two DXT5 formats exchanged
wrap_single_texture_swapped(texture_format, raw) ==
    LET n == texture_format % 16
    IN CASE n = 11 -> Single("RGB_DXT1_BC1", raw)
         [] n = 15 -> Single("RGBA_DXT5_BC3", raw)
         [] n = 14 -> Single("ScaledYCoCg_DXT5_BC3", raw)
         [] n = 12 -> Single("RGBA_BC7", raw)
         [] n = 1 -> Single("Alpha_RGTC1_BC4", raw)
         [] n = 2 -> Single("RGBUnsignedFloat_BC6U", raw)
         [] n = 3 -> Single("RGBSignedFloat_BC6S", raw)
         [] OTHER -> Err("UnknownTextureFormat", n)

wrap_single_texture(texture_format, raw) ==
    LET n == texture_format % 16
    IN CASE n = 11 -> Single("RGB_DXT1_BC1", raw)
         [] n = 14 -> Single("RGBA_DXT5_BC3", raw)
         [] n = 15 -> Single("ScaledYCoCg_DXT5_BC3", raw)
         [] n = 12 -> Single("RGBA_BC7", raw)
         [] n = 1 -> Single("Alpha_RGTC1_BC4", raw)
         [] n = 2 -> Single("RGBUnsignedFloat_BC6U", raw)
         [] n = 3 -> Single("RGBSignedFloat_BC6S", raw)
         [] OTHER -> Err("UnknownTextureFormat", n)

(***************************************************************************)
(* Decoder::decode_complex_instruction: the instruction-stream parser.     *)
(* oc tells whether the build traps on integer overflow (overflow-checks). *)
(***************************************************************************)
DciOut(res, consumed, chunks, p) ==
    [res |-> res, consumed |-> consumed, chunks |-> chunks, pos |-> p]

\* for mut x in buf.chunks(4) { v.push(x.read_u32::<LE>()?) }
ReadU32Table(buf) ==
    IF Len(buf) % 4 # 0 THEN [ok |-> FALSE, vals |-> <<>>]
    ELSE [ok |-> TRUE, vals |-> [i \in 1..(Len(buf) \div 4) |-> LEValue(Slice(buf, 4 * (i - 1), 4))]]

\* buf.into_iter().map(decode_second_stage_compressor).collect::<Result<Vec<_>, _>>()
DecodeCompressorTable(buf) ==
    LET bad == {i \in 1..Len(buf) : ~decode_second_stage_compressor(buf[i]).ok}
    IN IF bad = {}
       THEN [ok |-> TRUE, vals |-> [i \in 1..Len(buf) |-> decode_second_stage_compressor(buf[i]).c],
             code |-> 0]
       ELSE [ok |-> FALSE, vals |-> <<>>,
             code |-> buf[CHOOSE i \in bad : \A j \in bad : i <= j]]

\* a descriptor loop that places every chunk at offset zero when no offset
\* table was given
BuildChunks_no_subtotal(compressors, chunk_sizes, chunk_offsets) ==
    LET RECURSIVE go(_, _, _)
        go(chunk_idx, size_subtotal, chunks) ==
            IF chunk_idx > Len(chunk_sizes) THEN [ok |-> TRUE, chunks |-> chunks]
            ELSE IF chunk_offsets # <<>> /\ chunk_idx > Len(chunk_offsets)
                 THEN [ok |-> FALSE, chunks |-> <<>>]
            ELSE IF chunk_idx > Len(compressors)
                 THEN [ok |-> FALSE, chunks |-> <<>>]
            ELSE go(chunk_idx + 1, size_subtotal + chunk_sizes[chunk_idx],
                    Append(chunks,
                           [size |-> chunk_sizes[chunk_idx],
                            compressor |-> compressors[chunk_idx],
                            offset |-> IF chunk_offsets = <<>> THEN 0
                                       ELSE chunk_offsets[chunk_idx]]))
    IN go(1, 0, <<>>)

\* the loop of lines 353-367 building the chunk descriptors (the explored
\* size tables are too small for the u32 size_subtotal to overflow)
BuildChunks(compressors, chunk_sizes, chunk_offsets) ==
    LET RECURSIVE go(_, _, _)
        go(chunk_idx, size_subtotal, chunks) ==
            IF chunk_idx > Len(chunk_sizes) THEN [ok |-> TRUE, chunks |-> chunks]
            ELSE IF chunk_offsets # <<>> /\ chunk_idx > Len(chunk_offsets)
                 THEN [ok |-> FALSE, chunks |-> <<>>]
            ELSE IF chunk_idx > Len(compressors)
                 THEN [ok |-> FALSE, chunks |-> <<>>]
            ELSE go(chunk_idx + 1, size_subtotal + chunk_sizes[chunk_idx],
                    Append(chunks,
                           [size |-> chunk_sizes[chunk_idx],
                            compressor |-> compressors[chunk_idx],
                            offset |-> IF chunk_offsets = <<>> THEN size_subtotal
                                       ELSE chunk_offsets[chunk_idx]]))
    IN go(1, 0, <<>>)

\* lines 330-351: what one sub-section does to the three tables
Tables(res, compressors, chunk_sizes, chunk_offsets) ==
    [res |-> res, compressors |-> compressors, chunk_sizes |-> chunk_sizes,
     chunk_offsets |-> chunk_offsets]

WithCompressors(t, tables) ==
    IF t.ok THEN Tables(NoResult, t.vals, tables.chunk_sizes, tables.chunk_offsets)
    ELSE Tables(Err("UnknownCompressor", t.code), <<>>, <<>>, <<>>)

WithOffsets(t, tables) ==
    IF t.ok THEN Tables(NoResult, tables.compressors, tables.chunk_sizes, tables.chunk_offsets \o t.vals)
    ELSE Tables(IoError, <<>>, <<>>, <<>>)

WithSizes(t, tables) ==
    IF t.ok THEN Tables(NoResult, tables.compressors, tables.chunk_sizes \o t.vals, tables.chunk_offsets)
    ELSE Tables(IoError, <<>>, <<>>, <<>>)

\* a parser that rejects the tags it does not know
Instruction_strict(section_type, buf, tables) ==
    CASE section_type = HAP_SECITON_CHUNK_SECOND_STAGE_COMPRESSOR_TABLE ->
             WithCompressors(DecodeCompressorTable(buf), tables)
      [] section_type = HAP_SECTION_CHUNK_OFFSET_TABLE -> WithOffsets(ReadU32Table(buf), tables)
      [] section_type = HAP_SECTION_CHUNK_SIZE_TABLE -> WithSizes(ReadU32Table(buf), tables)
      [] OTHER -> Tables(Err("UnknownDecodeInstruction", section_type), <<>>, <<>>, <<>>)

Instruction(section_type, buf, tables) ==
    CASE section_type = HAP_SECITON_CHUNK_SECOND_STAGE_COMPRESSOR_TABLE ->
             WithCompressors(DecodeCompressorTable(buf), tables)
      [] section_type = HAP_SECTION_CHUNK_OFFSET_TABLE -> WithOffsets(ReadU32Table(buf), tables)
      [] section_type = HAP_SECTION_CHUNK_SIZE_TABLE -> WithSizes(ReadU32Table(buf), tables)
      [] OTHER -> tables

\* lines 353-371: the chunk list and the size of the complex header section
DciReturn(built, consumed, q) ==
    IF built.ok THEN DciOut(NoResult, consumed, built.chunks, q)
    ELSE DciOut(Panic, 0, <<>>, q)

\* lines 324-352: the loop over the sub-sections, bytestreaming bytes to go
RECURSIVE DciLoop(_, _, _, _, _, _)
DciNext(b, instruction_header, left, tables, consumed, oc) ==
    IF tables.res.kind # "none"
    THEN DciOut(tables.res, 0, <<>>, instruction_header.pos + instruction_header.size)
    ELSE DciLoop(b, instruction_header.pos + instruction_header.size, left, tables, consumed, oc)

DciStep(b, q, instruction_header, bytestreaming, tables, consumed, oc) ==
    IF ~instruction_header.ok THEN DciOut(IoError, 0, <<>>, q)
    ELSE IF oc /\ instruction_header.header_size + instruction_header.size > bytestreaming
    THEN DciOut(Panic, 0, <<>>, instruction_header.pos)
    ELSE IF Len(b) - instruction_header.pos < instruction_header.size
    THEN DciOut(IoError, 0, <<>>, instruction_header.pos)
    ELSE DciNext(b, instruction_header,
                 bytestreaming - (instruction_header.header_size + instruction_header.size),
                 Instruction(instruction_header.section_type,
                             Slice(b, instruction_header.pos, instruction_header.size), tables),
                 consumed, oc)

DciLoop(b, q, bytestreaming, tables, consumed, oc) ==
    IF bytestreaming = 0
    THEN DciReturn(BuildChunks(tables.compressors, tables.chunk_sizes, tables.chunk_offsets),
                   consumed, q)
    ELSE DciStep(b, q, parse_section_header(b, q), bytestreaming, tables, consumed, oc)

DciStart(b, p, complex_header, oc) ==
    IF ~complex_header.ok THEN DciOut(IoError, 0, <<>>, p)
    ELSE DciLoop(b, complex_header.pos, complex_header.size, Tables(NoResult, <<>>, <<>>, <<>>),
                 complex_header.header_size + complex_header.size, oc)

decode_complex_instruction(b, p, oc) == DciStart(b, p, parse_section_header(b, p), oc)

(***************************************************************************)
(* Decoder::decode_texture, threadpool feature off.                        *)
(***************************************************************************)
TexOut(res, raw, fmt, p) == [res |-> res, raw |-> raw, fmt |-> fmt, pos |-> p]

\* &buf[offset..offset + size] is in range
InRange(buf, c) == c.offset + c.size <= Len(buf)

\* the chunk loop of lines 386-399: a chunk that is not Snappy appends the
\* whole of buf to the output and leaves buf empty
SerialChunks(chunk_infos, body) ==
    LET RECURSIVE go(_, _, _)
        go(i, buf, decoded_raw_data) ==
            IF i > Len(chunk_infos) THEN [res |-> NoResult, raw |-> decoded_raw_data]
            ELSE LET chunk_info == chunk_infos[i]
                 IN IF chunk_info.compressor = "Snappy"
                    THEN IF ~InRange(buf, chunk_info) THEN [res |-> Panic, raw |-> <<>>]
                         ELSE LET d == SnappyDecompress(Slice(buf, chunk_info.offset, chunk_info.size))
                              IN IF d.ok THEN go(i + 1, buf, decoded_raw_data \o d.data)
                                 ELSE [res |-> SnappyError, raw |-> <<>>]
                    ELSE go(i + 1, <<>>, decoded_raw_data \o buf)
    IN go(1, body, <<>>)

\* lines 380-384: the complex header, then the chunk data
ChunkData(res, chunk_infos, buf, p) ==
    [res |-> res, chunk_infos |-> chunk_infos, buf |-> buf, pos |-> p]

ReadBody(b, size, ins) ==
    IF ins.res.kind # "none" THEN ChunkData(ins.res, <<>>, <<>>, ins.pos)
    ELSE IF size - ins.consumed < 0 THEN ChunkData(Panic, <<>>, <<>>, ins.pos)
    ELSE IF Len(b) - ins.pos < size - ins.consumed THEN ChunkData(IoError, <<>>, <<>>, ins.pos)
    ELSE ChunkData(NoResult, ins.chunks, Slice(b, ins.pos, size - ins.consumed),
                   ins.pos + (size - ins.consumed))

ReadChunkData(b, p, raw_section, oc) ==
    ReadBody(b, raw_section.size, decode_complex_instruction(b, p, oc))

\* lines 440-455: the bodies that are not chunked
decode_plain(raw_section, b, p) ==
    LET hi == HighNibble(raw_section.section_type)
        fmt == LowNibble(raw_section.section_type)
    IN IF hi = 160
       THEN IF Len(b) - p < raw_section.size THEN TexOut(IoError, <<>>, fmt, p)
            ELSE TexOut(NoResult, Slice(b, p, raw_section.size), fmt, p + raw_section.size)
       ELSE IF hi = 176
       THEN IF Len(b) - p < raw_section.size THEN TexOut(IoError, <<>>, fmt, p)
            ELSE LET d == SnappyDecompress(Slice(b, p, raw_section.size))
                 IN IF d.ok THEN TexOut(NoResult, d.data, fmt, p + raw_section.size)
                    ELSE TexOut(SnappyError, <<>>, fmt, p + raw_section.size)
       ELSE TexOut(Err("UnknownCompressor", hi), <<>>, fmt, p)

\* lines 385-399 and 456, after the chunk data was read
SerialTexture(cd, out, fmt) ==
    IF cd.res.kind # "none" THEN TexOut(cd.res, <<>>, 0, cd.pos)
    ELSE IF out.res.kind # "none" THEN TexOut(out.res, <<>>, 0, cd.pos)
    ELSE TexOut(NoResult, out.raw, fmt, cd.pos)

DecodeChunked(cd, fmt) == SerialTexture(cd, SerialChunks(cd.chunk_infos, cd.buf), fmt)

decode_texture(raw_section, b, p, oc) ==
    IF HighNibble(raw_section.section_type) = 192
    THEN DecodeChunked(ReadChunkData(b, p, raw_section, oc), LowNibble(raw_section.section_type))
    ELSE decode_plain(raw_section, b, p)

\* a test that forgets the preamble of the inner section
IsSingleInner_body_only(texture_section_header, outer) ==
    texture_section_header.size = outer.size

\* lines 463-464: the first inner section accounts for the whole outer section
IsSingleInner(texture_section_header, outer) ==
    texture_section_header.header_size + texture_section_header.size = outer.size

(***************************************************************************)
(* Decoder::decode_frame, threadpool feature off, as one function of the   *)
(* input: the result and the reader position it returns with.              *)
(***************************************************************************)
FrameOut(res, p) == [res |-> res, pos |-> p]

decode_frame(b, oc) ==
    LET raw_section == parse_section_header(b, 0)
    IN IF ~raw_section.ok THEN FrameOut(IoError, 0)
       ELSE IF raw_section.section_type = MULTI_IMAGE_MARKER
       THEN LET texture_section_header == parse_section_header(b, raw_section.pos)
                t1 == decode_texture(texture_section_header, b, texture_section_header.pos, oc)
            IN IF ~texture_section_header.ok THEN FrameOut(IoError, raw_section.pos)
               ELSE IF t1.res.kind # "none" THEN FrameOut(t1.res, t1.pos)
               ELSE IF IsSingleInner(texture_section_header, raw_section)
               THEN FrameOut(wrap_single_texture(t1.fmt, t1.raw), t1.pos)
               ELSE LET second == parse_section_header(b, t1.pos)
                        t2 == decode_texture(second, b, second.pos, oc)
                    IN IF ~second.ok THEN FrameOut(IoError, t1.pos)
                       ELSE IF t2.res.kind # "none" THEN FrameOut(t2.res, t2.pos)
                       ELSE FrameOut(Pair(t1.raw, t2.raw), t2.pos)
       ELSE LET t == decode_texture(raw_section, b, raw_section.pos, oc)
            IN IF t.res.kind # "none" THEN FrameOut(t.res, t.pos)
               ELSE FrameOut(wrap_single_texture(t.fmt, t.raw), t.pos)

(***************************************************************************)
(* The explored frames.  The repository has no encoder; the preamble       *)
(* encoder is the one of the format description: the short form iff the    *)
(* size is nonzero and fits 24 bits, else size_low = 0, size_high = size.  *)
(***************************************************************************)
LongPreamble(size, type) == <<0, 0, 0, type>> \o LEBytes(size, 4)
EncodePreamble(size, type) ==
    IF size # 0 /\ size < U24 THEN LEBytes(size, 3) \o <<type>>
    ELSE LongPreamble(size, type)
Preamble(e) == IF e.long THEN LongPreamble(e.size, e.type) ELSE EncodePreamble(e.size, e.type)
Enc(size, type, long) == [size |-> size, type |-> type, long |-> long]
Section(size, type, body) == EncodePreamble(size, type) \o body

\* the bytes of texture bodies
BodyBytes == {0, 1, 2}
Bodies == SeqsUpTo(BodyBytes, MaxBody)
\* section types of the simple frames: the seven formats, both plain
\* compressors, unknown formats, unknown compressors
SimpleTypes == {161, 162, 163, 171, 172, 174, 175, 187, 190,
                167, 183, 173, 160, 11, 7, 219, 29}
\* sizes at the edges of the two preamble forms
EdgeSizes == {0, 1, 255, 256, 65535, 65536, U24 - 1, U24, U24 + 1, 2147483647}

Nat0(n) == IF n < 0 THEN 0 ELSE n

\* the size field says the length of the body, or one byte more
SimpleFrames ==
    {[enc |-> Enc(Len(body) + d, t, FALSE), bytes |-> EncodePreamble(Len(body) + d, t) \o body] :
        <<t, body, d>> \in SimpleTypes \X Bodies \X {0, 1}}
\* either form of the preamble, sizes at the edges, a body of 0, 1 or 2 bytes
EdgeFrames ==
    {[enc |-> Enc(sz, t, l), bytes |-> Preamble(Enc(sz, t, l)) \o body] :
        <<sz, t, l, body>> \in EdgeSizes \X {171, 7, 13, 203} \X BOOLEAN \X {<<>>, <<1>>, <<0, 2>>}}

frame_vars == <<outer_section, cur_section, role, dxt5>>
pool_vars == <<tx, rx, guard, worker, poisoned>>
life_vars == <<dropped, calls>>
call_vars == <<infos, chunk_data, indices, buffer, queued_count, ci, received, next_uuid>>
vars == <<build, overflow_checks, enc, input, pos, pc, result, frame_vars, pool_vars, call_vars,
          life_vars>>

\* longest body of a texture section inside a multi-image marker section
MaxInner == 1

(***************************************************************************)
(* Complex (chunked) texture sections.                                     *)
(***************************************************************************)
Sub(tag, payload) == EncodePreamble(Len(payload), tag) \o payload
U32Table(tag, vals) == Sub(tag, Flatten([i \in 1..Len(vals) |-> LEBytes(vals[i], 4)]))
\* a sub-section with a tag the parser does not know
UnknownSub == Sub(9, <<11, 7>>)

\* chunk data: valid Snappy of <<>> and of <<2>>, and one that is not valid
Pieces == {<<0>>, <<1>>, <<1, 0, 2>>}
ChunkLists == SeqsUpTo({10, 11} \X Pieces, MaxChunks)
OffsetModes == {"absent", "prefix", "zero"}
Shapes == {"plain", "sizes_first", "unk_front", "unk_mid", "unk_back",
           "drop_comp", "drop_size", "drop_offset", "bad_first", "bad_last",
           "csize_plus", "csize_minus", "osize_plus", "osize_minus",
           "two_size_tables", "two_comp_tables", "odd_table"}
\* the shapes explored with an offset table
OffsetShapes == {"plain", "sizes_first", "unk_mid", "drop_offset"}

DropLast(q) == IF q = <<>> THEN q ELSE SubSeq(q, 1, Len(q) - 1)
PrefixSums(sz) == [i \in 1..Len(sz) |-> SeqSum(SubSeq(sz, 1, i - 1))]

\* the bytes of a complex texture section of the given outer type
ComplexSection(type, cl, om, shape) ==
    LET comps0 == [i \in 1..Len(cl) |-> cl[i][1]]
        sizes0 == [i \in 1..Len(cl) |-> Len(cl[i][2])]
        offs0 == CASE om = "absent" -> <<>>
                   [] om = "prefix" -> PrefixSums(sizes0)
                   [] OTHER -> [i \in 1..Len(cl) |-> 0]
        body == Flatten([i \in 1..Len(cl) |-> cl[i][2]])
        comps == CASE shape = "drop_comp" -> DropLast(comps0)
                   [] shape = "bad_first" /\ comps0 # <<>> -> <<12>> \o Tail(comps0)
                   [] shape = "bad_last" /\ comps0 # <<>> -> DropLast(comps0) \o <<160>>
                   [] OTHER -> comps0
        sizes == IF shape = "drop_size" THEN DropLast(sizes0) ELSE sizes0
        offs == IF shape = "drop_offset" THEN DropLast(offs0) ELSE offs0
        ct == <<Sub(HAP_SECITON_CHUNK_SECOND_STAGE_COMPRESSOR_TABLE, comps)>>
        st == CASE shape = "two_size_tables" /\ sizes # <<>> ->
                       <<U32Table(HAP_SECTION_CHUNK_SIZE_TABLE, <<Head(sizes)>>),
                         U32Table(HAP_SECTION_CHUNK_SIZE_TABLE, Tail(sizes))>>
                [] shape = "odd_table" ->
                       <<U32Table(HAP_SECTION_CHUNK_SIZE_TABLE, sizes) \o <<0, 0, 0>>>>
                [] OTHER -> <<U32Table(HAP_SECTION_CHUNK_SIZE_TABLE, sizes)>>
        ot == IF offs = <<>> THEN <<>> ELSE <<U32Table(HAP_SECTION_CHUNK_OFFSET_TABLE, offs)>>
        subs == CASE shape = "sizes_first" -> st \o ct \o ot
                  [] shape = "unk_front" -> <<UnknownSub>> \o ct \o st \o ot
                  [] shape = "unk_mid" -> ct \o <<UnknownSub>> \o st \o <<UnknownSub>> \o ot
                  [] shape = "unk_back" -> ct \o st \o ot \o <<UnknownSub>>
                  [] shape = "two_comp_tables" ->
                         <<Sub(HAP_SECITON_CHUNK_SECOND_STAGE_COMPRESSOR_TABLE,
                               [i \in 1..Len(comps) |-> 11])>> \o st \o ct \o ot
                  [] OTHER -> ct \o st \o ot
        hbody == Flatten(subs)
        \* odd_table: the size field of the size table does not count the 3 bytes
        csize == CASE shape = "csize_plus" -> Len(hbody) + 1
                   [] shape = "csize_minus" -> Nat0(Len(hbody) - 1)
                   [] OTHER -> Len(hbody)
        header == EncodePreamble(csize, 1) \o hbody
        osize == CASE shape = "osize_plus" -> Len(header) + Len(body) + 1
                   [] shape = "osize_minus" -> Nat0(Len(header) + Len(body) - 1)
                   [] OTHER -> Len(header) + Len(body)
    IN [enc |-> Enc(osize, type, FALSE), bytes |-> EncodePreamble(osize, type) \o header \o body]

ComplexFrames ==
    {ComplexSection(203, cl, om, shape) : <<cl, om, shape>> \in ChunkLists \X OffsetModes \X OffsetShapes}
    \cup {ComplexSection(203, cl, "absent", shape) : <<cl, shape>> \in ChunkLists \X Shapes}
    \cup {ComplexSection(199, cl, "absent", "plain") : cl \in ChunkLists}

(***************************************************************************)
(* Multi-image marker frames: one or two inner texture sections, and an    *)
(* outer size that does or does not cover them.                            *)
(***************************************************************************)
InnerTypes == {175, 161, 187, 167, 29}
InnerComplex ==
    {ComplexSection(203, cl, "absent", "plain").bytes : cl \in {<< <<11, <<0>> >> >>, << <<10, <<1>> >> >>}}
InnerSections ==
    {Section(Len(body), t, body) : <<t, body>> \in InnerTypes \X SeqsUpTo({0, 1}, MaxInner)}
    \cup InnerComplex
SecondSections ==
    {Section(Len(body), t, body) : <<t, body>> \in {161, 187, 29} \X SeqsUpTo({0, 1}, MaxInner)}
    \cup InnerComplex
\* the outer size: both inner sections (or one byte more), the first inner
\* section alone (or one byte less)
MultiFrames ==
    {[enc |-> Enc(Len(i1) + Len(i2) + d, MULTI_IMAGE_MARKER, FALSE),
      bytes |-> EncodePreamble(Len(i1) + Len(i2) + d, MULTI_IMAGE_MARKER) \o i1 \o i2] :
        <<i1, i2, d>> \in InnerSections \X (SecondSections \cup {<<>>}) \X {0, 1}}
    \cup {[enc |-> Enc(Len(i1) + d, MULTI_IMAGE_MARKER, FALSE),
           bytes |-> EncodePreamble(Len(i1) + d, MULTI_IMAGE_MARKER) \o i1 \o i2] :
        <<i1, i2, d>> \in InnerSections \X SecondSections \X {0, -1}}

\* streams that end inside the outer preamble
TruncFrames ==
    {[enc |-> Enc(sz, 171, FALSE), bytes |-> Take(EncodePreamble(sz, 171), n)] :
        <<sz, n>> \in {0, 1, U24} \X (0..7)}

Frames == SimpleFrames \cup EdgeFrames \cup ComplexFrames \cup MultiFrames \cup TruncFrames

\* the workers spawned by Decoder::new; the serial build has none
Workers == IF build = "threadpool" THEN 1..ThreadCount ELSE {}

NoSection == [ok |-> FALSE, size |-> 0, section_type |-> 0, header_size |-> 0, pos |-> 0]

Init ==
    /\ build \in {"serial", "threadpool"}
    /\ overflow_checks \in BOOLEAN
    /\ \E f \in Frames : enc = f.enc /\ input = f.bytes
    /\ pos = 0
    /\ pc = "start"
    /\ outer_section = NoSection
    /\ cur_section = NoSection
    /\ role = "none"
    /\ dxt5 = <<>>
    /\ result = NoResult
    /\ tx = <<>>
    /\ rx = <<>>
    /\ guard = 0
    /\ worker = [w \in Workers |-> [at |-> "loop", item |-> <<>>]]
    /\ infos = <<>>
    /\ chunk_data = <<>>
    /\ indices = <<>>
    /\ buffer = <<>>
    /\ queued_count = 0
    /\ ci = 0
    /\ received = 0
    /\ next_uuid = 0
    /\ dropped = FALSE
    /\ poisoned = FALSE
    /\ calls = 1

(***************************************************************************)
(* decode_frame, step by step.                                             *)
(***************************************************************************)
Return(res, p) ==
    /\ result' = res
    /\ pos' = p
    /\ pc' = "done"

\* line 460, and the test of line 461
ParseOuter ==
    /\ pc = "start"
    /\ LET h == parse_section_header(input, pos)
       IN IF ~h.ok
          THEN Return(IoError, pos) /\ UNCHANGED <<outer_section, cur_section, role>>
          ELSE /\ outer_section' = h
               /\ pos' = h.pos
               /\ result' = result
               /\ IF h.section_type = MULTI_IMAGE_MARKER
                  THEN pc' = "parse_first" /\ UNCHANGED <<cur_section, role>>
                  ELSE pc' = "decode" /\ cur_section' = h /\ role' = "outer"
    /\ UNCHANGED <<life_vars, build, overflow_checks, enc, input, dxt5, pool_vars, call_vars>>

\* line 462, and the test of lines 463-464
ParseFirst ==
    /\ pc = "parse_first"
    /\ LET h == parse_section_header(input, pos)
       IN IF ~h.ok
          THEN Return(IoError, pos) /\ UNCHANGED <<cur_section, role>>
          ELSE /\ cur_section' = h
               /\ pos' = h.pos
               /\ result' = result
               /\ pc' = "decode"
               /\ role' = IF IsSingleInner(h, outer_section) THEN "single" ELSE "first"
    /\ UNCHANGED <<life_vars, build, overflow_checks, enc, input, outer_section, dxt5, pool_vars, call_vars>>

\* line 470
ParseSecond ==
    /\ pc = "parse_second"
    /\ LET h == parse_section_header(input, pos)
       IN IF ~h.ok
          THEN Return(IoError, pos) /\ UNCHANGED <<cur_section, role>>
          ELSE /\ cur_section' = h
               /\ pos' = h.pos
               /\ result' = result
               /\ pc' = "decode"
               /\ role' = "second"
    /\ UNCHANGED <<life_vars, build, overflow_checks, enc, input, outer_section, dxt5, pool_vars, call_vars>>

\* a decode_frame that builds the pair the other way round
AfterTexture_swapped(out) ==
    IF out.res.kind # "none"
    THEN Return(out.res, out.pos) /\ dxt5' = dxt5
    ELSE CASE role = "first" ->
                /\ dxt5' = out.raw
                /\ pos' = out.pos
                /\ pc' = "parse_second"
                /\ result' = result
           [] role = "second" -> Return(Pair(out.raw, dxt5), out.pos) /\ dxt5' = dxt5
           [] OTHER -> Return(wrap_single_texture(out.fmt, out.raw), out.pos) /\ dxt5' = dxt5

\* what decode_frame does with the outcome of a decode_texture call
AfterTexture(out) ==
    IF out.res.kind # "none"
    THEN Return(out.res, out.pos) /\ dxt5' = dxt5
    ELSE CASE role = "first" ->
                /\ dxt5' = out.raw
                /\ pos' = out.pos
                /\ pc' = "parse_second"
                /\ result' = result
           [] role = "second" -> Return(Pair(dxt5, out.raw), out.pos) /\ dxt5' = dxt5
           [] OTHER -> Return(wrap_single_texture(out.fmt, out.raw), out.pos) /\ dxt5' = dxt5

IsComplex(section) == HighNibble(section.section_type) = 192

\* a call of decode_texture that does not use the worker pool
DecodeTexture ==
    /\ pc = "decode"
    /\ build = "serial" \/ ~IsComplex(cur_section)
    /\ AfterTexture(decode_texture(cur_section, input, pos, overflow_checks))
    /\ UNCHANGED <<life_vars, build, overflow_checks, enc, input, outer_section, cur_section, role,
                   pool_vars, call_vars>>

(***************************************************************************)
(* Decoder::decode_texture, threadpool feature on: the chunked path.       *)
(***************************************************************************)
\* a lookup that takes the slot drawn last, whatever the tag
FindPosition_last(ids, id) == Len(ids)

\* indices.iter().find_position(|x| x == &&id): the first slot holding id, 0 if none
FindPosition(ids, id) ==
    IF \E i \in 1..Len(ids) : ids[i] = id
    THEN CHOOSE i \in 1..Len(ids) : ids[i] = id /\ \A j \in 1..(i - 1) : ids[j] # id
    ELSE 0

\* lines 381-405: the complex header, the chunk data, the empty slots
BeginWith(cd) ==
    IF cd.res.kind # "none"
    THEN /\ AfterTexture(TexOut(cd.res, <<>>, 0, cd.pos))
         /\ UNCHANGED call_vars
    ELSE /\ infos' = cd.chunk_infos
         /\ chunk_data' = cd.buf
         /\ pos' = cd.pos
         /\ indices' = <<>>
         /\ buffer' = [i \in 1..Len(cd.chunk_infos) |-> <<>>]
         /\ queued_count' = 0
         /\ received' = 0
         /\ ci' = 1
         /\ pc' = "submit"
         /\ UNCHANGED <<result, dxt5, next_uuid>>

BeginChunked ==
    /\ pc = "decode"
    /\ build = "threadpool" /\ IsComplex(cur_section)
    /\ BeginWith(ReadChunkData(input, pos, cur_section, overflow_checks))
    /\ UNCHANGED <<life_vars, build, overflow_checks, enc, input, outer_section, cur_section, role, pool_vars>>

\* lines 406-426: one turn of the submission loop
Submit ==
    /\ pc = "submit"
    /\ ci <= Len(infos)
    /\ LET chunk_info == infos[ci]
           id == next_uuid + 1
           ids == Append(indices, id)
       IN /\ next_uuid' = id
          /\ indices' = ids
          /\ IF ~InRange(chunk_data, chunk_info)
             THEN /\ Return(Panic, pos)
                  /\ UNCHANGED <<tx, buffer, queued_count, ci>>
             ELSE /\ IF chunk_info.compressor = "Snappy"
                     THEN /\ tx' = Append(tx, <<id, Slice(chunk_data, chunk_info.offset, chunk_info.size)>>)
                          /\ queued_count' = queued_count + 1
                          /\ buffer' = buffer
                     ELSE /\ buffer' = [buffer EXCEPT ![FindPosition(ids, id)] =
                                            Slice(chunk_data, chunk_info.offset, chunk_info.size)]
                          /\ UNCHANGED <<tx, queued_count>>
                  /\ ci' = ci + 1
                  /\ UNCHANGED <<pc, pos, result>>
    /\ UNCHANGED <<life_vars, build, overflow_checks, enc, input, frame_vars, rx, guard, worker,
                   poisoned, infos, chunk_data, received>>

\* lines 427-435: one turn of the collection loop
Collect ==
    /\ pc = "submit"
    /\ ci > Len(infos)
    /\ received < queued_count
    /\ rx # <<>>
    /\ LET id == Head(rx)[1]
           decompressed == Head(rx)[2]
           idx == FindPosition(indices, id)
       IN /\ rx' = Tail(rx)
          /\ IF idx = 0
             THEN Return(Panic, pos) /\ UNCHANGED <<buffer, received>>
             ELSE IF ~decompressed.ok
             THEN Return(SnappyError, pos) /\ UNCHANGED <<buffer, received>>
             ELSE /\ buffer' = [buffer EXCEPT ![idx] = decompressed.data]
                  /\ received' = received + 1
                  /\ UNCHANGED <<pc, pos, result>>
    /\ UNCHANGED <<life_vars, build, overflow_checks, enc, input, frame_vars, tx, guard, worker,
                   poisoned, infos, chunk_data, indices, queued_count, ci, next_uuid>>

\* lines 436-438 and 456: the slots in order are the payload
FinishChunked ==
    /\ pc = "submit"
    /\ ci > Len(infos)
    /\ received = queued_count
    /\ AfterTexture(TexOut(NoResult, Flatten(buffer), LowNibble(cur_section.section_type), pos))
    /\ UNCHANGED <<life_vars, build, overflow_checks, enc, input, outer_section, cur_section, role,
                   pool_vars, call_vars>>

(***************************************************************************)
(* The worker loop of Decoder::new (lines 296-304).  The guard returned by *)
(* raw_rx.lock() is a temporary of the match scrutinee: it is dropped at   *)
(* the end of the match, after the send.  A worker that panics holding the *)
(* guard poisons the mutex, and lock().unwrap() panics from then on.       *)
(***************************************************************************)
\* raw_rx.lock().unwrap()
WorkerLock(w) ==
    /\ worker[w].at = "loop"
    /\ guard = 0
    /\ IF poisoned
       THEN worker' = [worker EXCEPT ![w].at = "dead"] /\ guard' = guard
       ELSE worker' = [worker EXCEPT ![w].at = "recv"] /\ guard' = w
    /\ UNCHANGED <<life_vars, build, overflow_checks, enc, input, pos, pc, result, frame_vars,
                   tx, rx, poisoned, call_vars>>

\* a receive that hands the item over without keeping the lock
WorkerRecv_unlocked(w) ==
    /\ worker[w].at = "recv"
    /\ tx # <<>>
    /\ tx' = Tail(tx)
    /\ worker' = [worker EXCEPT ![w] = [at |-> "got", item |-> Head(tx)]]
    /\ guard' = 0
    /\ UNCHANGED <<life_vars, build, overflow_checks, enc, input, pos, pc, result, frame_vars,
                   rx, poisoned, call_vars>>

\* .recv() returning Ok((uuid, raw))
WorkerRecv(w) ==
    /\ worker[w].at = "recv"
    /\ tx # <<>>
    /\ tx' = Tail(tx)
    /\ worker' = [worker EXCEPT ![w] = [at |-> "got", item |-> Head(tx)]]
    /\ UNCHANGED <<life_vars, build, overflow_checks, enc, input, pos, pc, result, frame_vars,
                   rx, guard, poisoned, call_vars>>

\* decompress_vec, send(..).unwrap(), and the end of the match arm; the send
\* fails once decompressed_rx is gone, and the worker panics
WorkerSend(w) ==
    /\ worker[w].at = "got"
    /\ IF dropped
       THEN /\ worker' = [worker EXCEPT ![w] = [at |-> "dead", item |-> <<>>]]
            /\ poisoned' = TRUE
            /\ rx' = rx
       ELSE /\ rx' = Append(rx, <<worker[w].item[1], SnappyDecompress(worker[w].item[2])>>)
            /\ worker' = [worker EXCEPT ![w] = [at |-> "loop", item |-> <<>>]]
            /\ poisoned' = poisoned
    /\ guard' = 0
    /\ UNCHANGED <<life_vars, build, overflow_checks, enc, input, pos, pc, result, frame_vars,
                   tx, call_vars>>

Next ==
    \/ ParseOuter
    \/ ParseFirst
    \/ ParseSecond
    \/ DecodeTexture
    \/ BeginChunked
    \/ Submit
    \/ Collect
    \/ FinishChunked
    \/ \E w \in Workers : WorkerLock(w)
    \/ \E w \in Workers : WorkerRecv(w)
    \/ \E w \in Workers : WorkerSend(w)

Spec == Init /\ [][Next]_vars

(***************************************************************************)
(* A Decoder with a worker pool, used for several frames and then dropped. *)
(* Decode calls on one Decoder are made one after the other; a call that   *)
(* panicked is followed by no other call.  Dropping the Decoder drops      *)
(* raw_tx and decompressed_rx: the results still in the result channel are *)
(* gone, the items still in the work queue stay there for the workers.     *)
(* While the Decoder lives every worker lives, so that tx.send and         *)
(* rx.recv of decode_texture do not fail.                                  *)
(***************************************************************************)
\* most decode_frame calls made on one Decoder
MaxCalls == 2

\* chunk lists: two Snappy chunks; the same with a first chunk that is not
\* valid Snappy; a None chunk before a Snappy chunk
PoolChunkLists ==
    {<< <<11, <<1, 0, 2>> >>, <<11, <<0>> >> >>,
     << <<11, <<1>> >>, <<11, <<0>> >> >>,
     << <<10, <<1>> >>, <<11, <<1, 0, 2>> >> >>}
\* complex frames of these chunk lists, one whose chunk data lacks the last
\* byte, a plain texture, a pair of complex textures
PoolFrames ==
    {ComplexSection(203, cl, "absent", "plain") : cl \in PoolChunkLists}
    \cup {ComplexSection(203, << <<11, <<0>> >>, <<11, <<0>> >> >>, "absent", "osize_minus")}
    \cup {[enc |-> Enc(1, 171, FALSE), bytes |-> Section(1, 171, <<1>>)]}
    \cup {[enc |-> Enc(Len(i1) + Len(i2), MULTI_IMAGE_MARKER, FALSE),
           bytes |-> EncodePreamble(Len(i1) + Len(i2), MULTI_IMAGE_MARKER) \o i1 \o i2] :
              <<i1, i2>> \in InnerComplex \X InnerComplex}

PoolInit ==
    /\ build = "threadpool"
    /\ overflow_checks \in BOOLEAN
    /\ \E f \in PoolFrames : enc = f.enc /\ input = f.bytes
    /\ pos = 0
    /\ pc = "start"
    /\ outer_section = NoSection
    /\ cur_section = NoSection
    /\ role = "none"
    /\ dxt5 = <<>>
    /\ result = NoResult
    /\ tx = <<>>
    /\ rx = <<>>
    /\ guard = 0
    /\ worker = [w \in 1..ThreadCount |-> [at |-> "loop", item |-> <<>>]]
    /\ infos = <<>>
    /\ chunk_data = <<>>
    /\ indices = <<>>
    /\ buffer = <<>>
    /\ queued_count = 0
    /\ ci = 0
    /\ received = 0
    /\ next_uuid = 0
    /\ dropped = FALSE
    /\ poisoned = FALSE
    /\ calls = 1

\* .recv() returning Err: the queue is empty and raw_tx is gone; the error is
\* logged and the loop goes round
WorkerRecvErr(w) ==
    /\ worker[w].at = "recv"
    /\ tx = <<>>
    /\ dropped
    /\ worker' = [worker EXCEPT ![w].at = "loop"]
    /\ guard' = 0
    /\ UNCHANGED <<life_vars, build, overflow_checks, enc, input, pos, pc, result, frame_vars,
                   tx, rx, poisoned, call_vars>>

\* the caller makes another decode_frame call on the same Decoder
NextFrame ==
    /\ pc = "done"
    /\ result.kind \in {"texture", "err"}
    /\ calls < MaxCalls
    /\ calls' = calls + 1
    /\ \E f \in PoolFrames : enc' = f.enc /\ input' = f.bytes
    /\ pos' = 0
    /\ pc' = "start"
    /\ outer_section' = NoSection
    /\ cur_section' = NoSection
    /\ role' = "none"
    /\ dxt5' = <<>>
    /\ result' = NoResult
    /\ infos' = <<>>
    /\ chunk_data' = <<>>
    /\ indices' = <<>>
    /\ buffer' = <<>>
    /\ queued_count' = 0
    /\ ci' = 0
    /\ received' = 0
    /\ UNCHANGED <<build, overflow_checks, pool_vars, next_uuid, dropped>>

\* the Decoder goes out of scope, between calls or as a panicking call unwinds
Drop ==
    /\ pc \in {"start", "done"}
    /\ dropped' = TRUE
    /\ rx' = <<>>
    /\ pc' = "dropped"
    /\ UNCHANGED <<build, overflow_checks, enc, input, pos, result, frame_vars, tx, guard, worker,
                   poisoned, call_vars, calls>>

\* the steps of a decode_texture call once it has read the chunk data
PoolCallStep ==
    \/ Submit
    \/ Collect
    \/ FinishChunked

\* the steps of worker thread w
WorkerStep(w) ==
    \/ WorkerLock(w)
    \/ WorkerRecv(w)
    \/ WorkerRecvErr(w)
    \/ WorkerSend(w)

PoolNext ==
    \/ ParseOuter
    \/ ParseFirst
    \/ ParseSecond
    \/ DecodeTexture
    \/ BeginChunked
    \/ Submit
    \/ Collect
    \/ FinishChunked
    \/ \E w \in 1..ThreadCount : WorkerLock(w)
    \/ \E w \in 1..ThreadCount : WorkerRecv(w)
    \/ \E w \in 1..ThreadCount : WorkerRecvErr(w)
    \/ \E w \in 1..ThreadCount : WorkerSend(w)
    \/ NextFrame
    \/ Drop

\* a thread that can take a step is scheduled in the end: the workers, and
\* the caller's thread while it submits and collects; the caller is free to
\* make no further call and never to drop the Decoder
PoolSpec ==
    /\ PoolInit
    /\ [][PoolNext]_vars
    /\ WF_vars(PoolCallStep)
    /\ \A w \in 1..ThreadCount : WF_vars(WorkerStep(w))

TypeOK ==
    /\ pc \in {"start", "parse_first", "parse_second", "decode", "submit", "done", "dropped"}
    /\ pos \in 0..Len(input)
    /\ result.kind \in {"none", "err", "panic", "texture"}
    /\ pc = "done" => result.kind # "none"
    /\ result.kind # "none" => pc \in {"done", "dropped"}
    /\ dropped = (pc = "dropped")
    /\ calls \in 1..MaxCalls
    /\ guard # 0 => worker[guard].at \in {"recv", "got"}

\* the step machine of the serial build agrees with decode_frame as a function
SerialAgrees ==
    (build = "serial" /\ pc = "done") =>
        /\ result = decode_frame(input, overflow_checks).res
        /\ result.kind = "texture" => pos = decode_frame(input, overflow_checks).pos

(***************************************************************************)
(* Properties.                                                             *)
(***************************************************************************)
\* the bytes of the input read as numbers, little-endian
Byte(i) == input[i]
U24At(p) == Byte(p + 1) + 256 * Byte(p + 2) + 65536 * Byte(p + 3)
U32At(p) == Byte(p + 1) + 256 * Byte(p + 2) + 65536 * Byte(p + 3) + 16777216 * Byte(p + 4)

\* h is what the preamble at offset p of the input says
ReadsPreambleAt(h, p) ==
    /\ h.section_type = Byte(p + 4)
    /\ IF U24At(p) # 0
       THEN h.size = U24At(p) /\ h.header_size = 4
       ELSE h.size = U32At(p + 4) /\ h.header_size = 8
    /\ h.pos = p + h.header_size

\* the stream holds a whole preamble at offset p
HoldsPreambleAt(p) ==
    /\ Len(input) >= p + 4
    /\ U24At(p) = 0 => Len(input) >= p + 8

\* C1: parse_section_header reads a 24-bit LE size and a type byte; a nonzero
\* size gives {s24, type, 4} and 4 bytes consumed, a zero one gives
\* {s32, type, 8} and 8 bytes consumed; the reader advance equals
\* header_size; it succeeds for every type byte whenever the bytes are there.
C1_ParseSectionHeader ==
    /\ pc # "start" =>
          /\ outer_section.ok = HoldsPreambleAt(0)
          /\ outer_section.ok => ReadsPreambleAt(outer_section, 0)
    /\ (pc \in {"parse_first", "decode"} /\ role \in {"none", "outer"}) =>
          pos = outer_section.header_size
    /\ cur_section.ok =>
          ReadsPreambleAt(cur_section, cur_section.pos - cur_section.header_size)
    /\ pc = "decode" => pos = cur_section.pos

\* C1 witness: an extended preamble with an unassigned type byte was read
C1_Witness ==
    /\ pc = "decode"
    /\ outer_section.header_size = 8
    /\ outer_section.size = U24 + 1
    /\ outer_section.section_type = 7
    /\ pos = 8

\* C2: a preamble encoded from (size, type), short form iff the size is
\* nonzero and fits 24 bits, decodes to the same size and type, with
\* header_size 4 for the short form and 8 for the long one.
C2_PreambleRoundTrip ==
    (pc # "start" /\ Take(input, Len(EncodePreamble(enc.size, enc.type)))
                        = EncodePreamble(enc.size, enc.type)) =>
        /\ outer_section.ok
        /\ outer_section.size = enc.size
        /\ outer_section.section_type = enc.type
        /\ outer_section.header_size = IF enc.size # 0 /\ enc.size < U24 THEN 4 ELSE 8

\* C2 witness: a size that needs all four bytes of the long form came back
C2_Witness ==
    /\ pc # "start"
    /\ ~enc.long
    /\ enc.size = 2147483647
    /\ outer_section.size = 2147483647
    /\ outer_section.header_size = 8

\* the Texture variant assigned to each format nibble
VariantOf(n) ==
    CASE n = 1 -> "Alpha_RGTC1_BC4"
      [] n = 2 -> "RGBUnsignedFloat_BC6U"
      [] n = 3 -> "RGBSignedFloat_BC6S"
      [] n = 11 -> "RGB_DXT1_BC1"
      [] n = 12 -> "RGBA_BC7"
      [] n = 14 -> "RGBA_DXT5_BC3"
      [] n = 15 -> "ScaledYCoCg_DXT5_BC3"
      [] OTHER -> "none"
FormatNibbles == {1, 2, 3, 11, 12, 14, 15}

\* the body of section h is in the stream
HoldsBody(h) == Len(input) - h.pos >= h.size
BodyOf(h) == Slice(input, h.pos, h.size)

\* C3: a frame whose outer type has high nibble 0xA0 or 0xB0 and a known
\* format nibble decodes to that nibble's variant, carrying the size body
\* bytes (0xA0) or their Snappy decompression (0xB0), and the reader ends
\* right after the body.
C3_PlainTexture ==
    (/\ pc = "done"
     /\ outer_section.ok
     /\ HighNibble(outer_section.section_type) \in {160, 176}
     /\ LowNibble(outer_section.section_type) \in FormatNibbles
     /\ HoldsBody(outer_section)) =>
        LET body == BodyOf(outer_section)
            v == VariantOf(LowNibble(outer_section.section_type))
        IN IF HighNibble(outer_section.section_type) = 160
           THEN result = Single(v, body) /\ pos = outer_section.header_size + outer_section.size
           ELSE IF SnappyDecompress(body).ok
                THEN /\ result = Single(v, SnappyDecompress(body).data)
                     /\ pos = outer_section.header_size + outer_section.size
                ELSE result = SnappyError

\* C3 witness: a Snappy body that differs from its decompression was decoded
C3_Witness ==
    /\ pc = "done"
    /\ outer_section.section_type = 190
    /\ HoldsBody(outer_section)
    /\ BodyOf(outer_section) = <<1, 0, 2>>
    /\ result = Single("RGBA_DXT5_BC3", <<2>>)

UnknownFormat(n) == Err("UnknownTextureFormat", n)
UnknownCompressor(c) == Err("UnknownCompressor", c)
OuterHigh == HighNibble(outer_section.section_type)
OuterLow == LowNibble(outer_section.section_type)

\* the frame is a single texture section with a nibble that names no format
UnknownNibbleFrame ==
    /\ pc = "done"
    /\ outer_section.ok
    /\ outer_section.section_type # MULTI_IMAGE_MARKER
    /\ OuterLow \notin FormatNibbles

\* C4 as claimed: such a frame fails with UnknownTextureFormat(low nibble)
\* whatever follows the preamble.
C4_AsClaimed == UnknownNibbleFrame => result = UnknownFormat(OuterLow)

\* C4 as amended: such a frame never yields a texture; it fails with
\* UnknownTextureFormat(low nibble) when the body decodes, and with the error
\* of the body otherwise: UnknownCompressor(high nibble) for a high nibble
\* other than 0xA0, 0xB0, 0xC0, Io for a body shorter than size, Snappy for
\* a 0xB0 body that is not valid Snappy.
C4_UnknownFormatAfterBody ==
    UnknownNibbleFrame =>
        /\ result.kind # "texture"
        /\ OuterHigh \notin {160, 176, 192} => result = UnknownCompressor(OuterHigh)
        /\ (OuterHigh \in {160, 176} /\ ~HoldsBody(outer_section)) => result = IoError
        /\ (OuterHigh = 160 /\ HoldsBody(outer_section)) => result = UnknownFormat(OuterLow)
        /\ (OuterHigh = 176 /\ HoldsBody(outer_section)) =>
              result = IF SnappyDecompress(BodyOf(outer_section)).ok
                       THEN UnknownFormat(OuterLow) ELSE SnappyError
        /\ (OuterHigh = 192 /\ result.kind = "err"
              /\ result.variant = "UnknownTextureFormat") => result.code = OuterLow

\* C4 witness: type 0xA7 with its body present failed with UnknownTextureFormat(7)
C4_Witness ==
    /\ pc = "done"
    /\ outer_section.section_type = 167
    /\ outer_section.size = 2
    /\ result = UnknownFormat(7)

\* the compressor table that opens the complex header of the section being
\* decoded: its n bytes lie at c + 8 .. , inside the complex header
CurComplexAt == cur_section.pos
TableFirst ==
    /\ cur_section.ok
    /\ IsComplex(cur_section)
    /\ Len(input) >= CurComplexAt + 8
    /\ U24At(CurComplexAt) # 0
    /\ U24At(CurComplexAt + 4) # 0
    /\ Byte(CurComplexAt + 8) = HAP_SECITON_CHUNK_SECOND_STAGE_COMPRESSOR_TABLE
    /\ Len(input) >= CurComplexAt + 8 + U24At(CurComplexAt + 4)
    /\ U24At(CurComplexAt + 4) + 4 <= U24At(CurComplexAt)
BadTableEntries ==
    {i \in 1..U24At(CurComplexAt + 4) : Byte(CurComplexAt + 8 + i) \notin {10, 11}}

\* C5: decode_frame fails with UnknownCompressor(type & 0xF0) when the
\* texture section it decodes has a high nibble other than 0xA0, 0xB0, 0xC0,
\* and with UnknownCompressor(byte) when the chunk compressor table holds a
\* byte other than 0x0A and 0x0B (the first such byte); no texture comes back.
C5_UnknownCompressor ==
    /\ (pc = "done" /\ cur_section.ok
          /\ HighNibble(cur_section.section_type) \notin {160, 176, 192}) =>
              result = UnknownCompressor(HighNibble(cur_section.section_type))
    /\ (pc = "done" /\ TableFirst /\ BadTableEntries # {}) =>
              result = UnknownCompressor(
                  Byte(CurComplexAt + 8 + CHOOSE i \in BadTableEntries :
                                              \A j \in BadTableEntries : i <= j))

\* C5 witness: a table <<0x0A, 0xA0>> was rejected for its second byte
C5_Witness ==
    /\ pc = "done"
    /\ TableFirst
    /\ U24At(CurComplexAt + 4) = 2
    /\ Byte(CurComplexAt + 9) = 10
    /\ Byte(CurComplexAt + 10) = 160
    /\ result = UnknownCompressor(160)

\* the inner sections of a multi-image marker frame, as the bytes say
MarkerFrame == outer_section.ok /\ outer_section.section_type = MULTI_IMAGE_MARKER
I1 == parse_section_header(input, outer_section.pos)
I2 == parse_section_header(input, I1.pos + I1.size)
Total(h) == h.header_size + h.size
MultiVariant == "MultipleImages_ScaledYCoCg_DXT5_Alpha_RGTC1"

\* a section whose body is plain (0xA0) or whole-body Snappy (0xB0), present
\* and decodable, and its payload
Decodable(h) ==
    /\ h.ok
    /\ HighNibble(h.section_type) \in {160, 176}
    /\ HoldsBody(h)
    /\ HighNibble(h.section_type) = 176 => SnappyDecompress(BodyOf(h)).ok
Payload(h) ==
    IF HighNibble(h.section_type) = 160 THEN BodyOf(h) ELSE SnappyDecompress(BodyOf(h)).data

\* C6: a 0x0D frame whose first inner section I1 has header_size + size equal
\* to the outer size decodes I1 alone and returns the single variant of
\* I1's low nibble, never the pair and nothing derived from 0x0D.
C6_SingleInner ==
    (pc = "done" /\ MarkerFrame /\ I1.ok /\ Total(I1) = outer_section.size) =>
        /\ result.variant # MultiVariant
        /\ result.kind = "texture" =>
              /\ result.variant = VariantOf(LowNibble(I1.section_type))
              /\ result.raw2 = <<>>
              /\ pos = I1.pos + I1.size
        /\ Decodable(I1) =>
              result = IF LowNibble(I1.section_type) \in FormatNibbles
                       THEN Single(VariantOf(LowNibble(I1.section_type)), Payload(I1))
                       ELSE UnknownFormat(LowNibble(I1.section_type))

\* C6 witness: the single variant came back and a second section was left unread
C6_Witness ==
    /\ pc = "done"
    /\ MarkerFrame
    /\ I1.ok
    /\ Total(I1) = outer_section.size
    /\ result = Single("ScaledYCoCg_DXT5_BC3", <<1>>)
    /\ Len(input) > pos

\* C7: a 0x0D frame whose first inner section has header_size + size other
\* than the outer size decodes I1, parses I2 right after I1's body, decodes
\* it and returns the pair (payload of I1, payload of I2).
C7_Pair ==
    (pc = "done" /\ MarkerFrame /\ I1.ok /\ Total(I1) # outer_section.size) =>
        /\ result.kind = "texture" => result.variant = MultiVariant
        /\ (Decodable(I1) /\ Decodable(I2)) =>
              /\ result = Pair(Payload(I1), Payload(I2))
              /\ pos = I2.pos + I2.size
        /\ (Decodable(I1) /\ ~I2.ok) => result = IoError

\* C7 witness: a pair in stream order, from an outer size smaller than I1
C7_Witness ==
    /\ pc = "done"
    /\ MarkerFrame
    /\ I1.ok
    /\ Total(I1) > outer_section.size
    /\ result = Pair(<<0>>, <<1>>)

\* C8: whenever the pair is returned, the outer size covers both inner
\* sections with their preambles: I1.header_size + I1.size + I2.header_size
\* + I2.size = O.size.
C8_OuterSizeCoversBoth ==
    (pc = "done" /\ MarkerFrame /\ result.variant = MultiVariant) =>
        /\ Total(I1) + Total(I2) = outer_section.size
        /\ pos - outer_section.pos = outer_section.size

\* the chunk list and the body buffer B of the outer complex section
OuterChunkData == ReadChunkData(input, outer_section.pos, outer_section, overflow_checks)
\* what a chunk contributes: the decompression of its range, or its range
ChunkRange(B, c) == Slice(B, c.offset, c.size)
ChunkOutput(B, c) ==
    IF c.compressor = "Snappy" THEN SnappyDecompress(ChunkRange(B, c)).data ELSE ChunkRange(B, c)
ChunkDecodes(B, c) ==
    /\ InRange(B, c)
    /\ c.compressor = "Snappy" => SnappyDecompress(ChunkRange(B, c)).ok
ChunkedPayload(cd) ==
    Flatten([i \in 1..Len(cd.chunk_infos) |-> ChunkOutput(cd.buf, cd.chunk_infos[i])])
ChunkedFrame ==
    /\ pc = "done"
    /\ outer_section.ok
    /\ IsComplex(outer_section)
    /\ OuterLow \in FormatNibbles
    /\ OuterChunkData.res.kind = "none"
    /\ \A i \in 1..Len(OuterChunkData.chunk_infos) :
           ChunkDecodes(OuterChunkData.buf, OuterChunkData.chunk_infos[i])

\* C9: in the serial decoder the payload of a chunked texture is the
\* concatenation, in chunk order, of the Snappy decompression of
\* B[offset .. offset + size] for a Snappy chunk and of exactly that range
\* for a None chunk.
C9_SerialChunkRanges ==
    (build = "serial" /\ ChunkedFrame) =>
        result = Single(VariantOf(OuterLow), ChunkedPayload(OuterChunkData))

\* C10: for a complex frame the worker-pool decoder returns what the serial
\* decoder returns, payload and failure alike.
SerialResult == decode_frame(input, overflow_checks).res
C10_PoolEqualsSerial ==
    (build = "threadpool" /\ pc = "done" /\ outer_section.ok /\ IsComplex(outer_section)) =>
        /\ (result.kind = "texture") = (SerialResult.kind = "texture")
        /\ result.kind = "texture" => result = SerialResult

(***************************************************************************)
(* Complex frames compared with the same frame less some sub-sections.     *)
(***************************************************************************)
\* the sub-sections of a complex header as the bytes say: q the offset of the
\* next preamble, left the bytes of the complex header still to go
RECURSIVE SubsAt(_, _, _)
SubsAt(b, q, left) ==
    IF left = 0 THEN [ok |-> TRUE, subs |-> <<>>, pos |-> q]
    ELSE LET h == parse_section_header(b, q)
         IN IF ~h.ok \/ left < h.header_size + h.size \/ Len(b) - h.pos < h.size
            THEN [ok |-> FALSE, subs |-> <<>>, pos |-> q]
            ELSE LET rest == SubsAt(b, h.pos + h.size, left - (h.header_size + h.size))
                 IN [ok |-> rest.ok,
                     subs |-> <<[tag |-> h.section_type, payload |-> Slice(b, h.pos, h.size)]>>
                              \o rest.subs,
                     pos |-> rest.pos]

\* a frame that is one complex texture section, taken apart
NoLayout == [ok |-> FALSE, type |-> 0, ctype |-> 0, subs |-> <<>>, body |-> <<>>]
LayoutFrom(b, o, c) ==
    IF ~c.ok THEN NoLayout
    ELSE LET s == SubsAt(b, c.pos, c.size)
         IN IF ~s.ok THEN NoLayout
            ELSE [ok |-> TRUE, type |-> o.section_type, ctype |-> c.section_type,
                  subs |-> s.subs, body |-> Slice(b, s.pos, Len(b) - s.pos)]
Layout(b) ==
    LET o == parse_section_header(b, 0)
    IN IF o.ok /\ IsComplex(o) THEN LayoutFrom(b, o, parse_section_header(b, o.pos))
       ELSE NoLayout

\* the frame put together again without the sub-sections whose tag is in
\* drop, the size of the complex header and the outer size following
Rebuild(l, drop) ==
    LET kept == SelectSeq(l.subs, LAMBDA s : s.tag \notin drop)
        hbody == Flatten([i \in 1..Len(kept) |-> Sub(kept[i].tag, kept[i].payload)])
        header == EncodePreamble(Len(hbody), l.ctype) \o hbody
    IN EncodePreamble(Len(header) + Len(l.body), l.type) \o header \o l.body

\* the input is a complex frame whose sizes all say what is there
Consistent(l) == l.ok /\ Rebuild(l, {}) = input

\* all payload bytes under one tag, in stream order
TableBytes(l, tag) ==
    LET of_tag == SelectSeq(l.subs, LAMBDA s : s.tag = tag)
    IN Flatten([i \in 1..Len(of_tag) |-> of_tag[i].payload])
U32s(bytes) == ReadU32Table(bytes).vals
KnownTags == {HAP_SECITON_CHUNK_SECOND_STAGE_COMPRESSOR_TABLE, HAP_SECTION_CHUNK_SIZE_TABLE,
              HAP_SECTION_CHUNK_OFFSET_TABLE}
TagsOf(l) == {l.subs[i].tag : i \in 1..Len(l.subs)}

\* the chunk list and chunk data decode_texture gets from frame b
ChunkDataOf(b) ==
    ReadChunkData(b, parse_section_header(b, 0).pos, parse_section_header(b, 0), overflow_checks)
AllChunksDecode(cd) ==
    \A i \in 1..Len(cd.chunk_infos) : ChunkDecodes(cd.buf, cd.chunk_infos[i])

\* the decode of the input went as the decode of frame twin goes: the same
\* chunk descriptors over the same chunk data, and the same outcome
SameDecodeAs(twin) ==
    /\ ChunkDataOf(input).res = ChunkDataOf(twin).res
    /\ ChunkDataOf(input).chunk_infos = ChunkDataOf(twin).chunk_infos
    /\ ChunkDataOf(input).buf = ChunkDataOf(twin).buf
    /\ build = "serial" => result = decode_frame(twin, overflow_checks).res
    /\ (build = "threadpool" /\ ChunkDataOf(twin).res.kind = "none"
          /\ AllChunksDecode(ChunkDataOf(twin))) =>
             result = wrap_single_texture(parse_section_header(twin, 0).section_type,
                                          ChunkedPayload(ChunkDataOf(twin)))
    /\ (build = "threadpool" /\ ChunkDataOf(twin).res.kind # "none") =>
             result = ChunkDataOf(twin).res

\* the offset table of the input lists the prefix sums of its size table
PrefixOffsets(l) ==
    /\ Consistent(l)
    /\ HAP_SECTION_CHUNK_OFFSET_TABLE \in TagsOf(l)
    /\ ReadU32Table(TableBytes(l, HAP_SECTION_CHUNK_SIZE_TABLE)).ok
    /\ ReadU32Table(TableBytes(l, HAP_SECTION_CHUNK_OFFSET_TABLE)).ok
    /\ U32s(TableBytes(l, HAP_SECTION_CHUNK_OFFSET_TABLE))
          = PrefixSums(U32s(TableBytes(l, HAP_SECTION_CHUNK_SIZE_TABLE)))

\* C11: without an offset table chunk i lies at the sum of sizes[0..i); a
\* complex frame whose offset table lists exactly those prefix sums gives the
\* same chunk descriptors and the same outcome as the frame with the offset
\* table taken out and the sizes adjusted.
C11_OffsetTableEquivalence ==
    (pc = "done" /\ PrefixOffsets(Layout(input))) =>
        /\ SameDecodeAs(Rebuild(Layout(input), {HAP_SECTION_CHUNK_OFFSET_TABLE}))
        /\ \A i \in 1..Len(ChunkDataOf(input).chunk_infos) :
              ChunkDataOf(input).chunk_infos[i].offset =
                  SeqSum([j \in 1..(i - 1) |-> ChunkDataOf(input).chunk_infos[j].size])

\* C11 witness: a frame with offset table <<0, 3>> decoded to a texture, its
\* second chunk taken from offset 3
C11_Witness ==
    /\ pc = "done"
    /\ PrefixOffsets(Layout(input))
    /\ U32s(TableBytes(Layout(input), HAP_SECTION_CHUNK_OFFSET_TABLE)) = <<0, 3>>
    /\ Rebuild(Layout(input), {HAP_SECTION_CHUNK_OFFSET_TABLE}) # input
    /\ result = Single("RGB_DXT1_BC1", <<2>>)

\* C12: sub-sections with a tag outside {0x02, 0x03, 0x04}, anywhere in the
\* complex header and counted in its size and the outer size, change nothing:
\* the chunk descriptors and the outcome are those of the frame without them.
C12_UnknownSubSections ==
    (pc = "done" /\ Consistent(Layout(input)) /\ TagsOf(Layout(input)) \ KnownTags # {}) =>
        SameDecodeAs(Rebuild(Layout(input), TagsOf(Layout(input)) \ KnownTags))

\* C12 witness: a frame with two unknown sub-sections among its tables
\* decoded to a texture
C12_Witness ==
    /\ pc = "done"
    /\ Consistent(Layout(input))
    /\ Len(SelectSeq(Layout(input).subs, LAMBDA s : s.tag \notin KnownTags)) = 2
    /\ Len(ChunkDataOf(input).chunk_infos) = 2
    /\ result = Single("RGB_DXT1_BC1", <<2, 2>>)

(***************************************************************************)
(* The running count of the instruction-stream parser.                     *)
(***************************************************************************)
\* the parser takes the payload of sub-section h for a table, or skips it
Accepted(b, h) ==
    CASE h.section_type = HAP_SECITON_CHUNK_SECOND_STAGE_COMPRESSOR_TABLE ->
             \A i \in 1..h.size : b[h.pos + i] \in {10, 11}
      [] h.section_type \in {HAP_SECTION_CHUNK_SIZE_TABLE, HAP_SECTION_CHUNK_OFFSET_TABLE} ->
             h.size % 4 = 0
      [] OTHER -> TRUE

\* walking the sub-sections from offset q with left bytes of the complex
\* header to go, the parser comes to a sub-section that is wholly in the
\* stream, and whose header_size + size is more than the bytes left: the
\* offset of the end of that sub-section, 0 if there is none
RECURSIVE OverrunEnd(_, _, _)
OverrunEnd(b, q, left) ==
    IF left = 0 THEN 0
    ELSE LET h == parse_section_header(b, q)
         IN IF ~h.ok \/ Len(b) - h.pos < h.size THEN 0
            ELSE IF h.header_size + h.size > left THEN h.pos + h.size
            ELSE IF ~Accepted(b, h) THEN 0
            ELSE OverrunEnd(b, h.pos + h.size, left - (h.header_size + h.size))

\* the complex header of the (single, complex) outer section
OuterComplexHeader == parse_section_header(input, outer_section.pos)
OverrunFrame ==
    /\ pc = "done"
    /\ outer_section.ok
    /\ IsComplex(outer_section)
    /\ OuterComplexHeader.ok
    /\ OverrunEnd(input, OuterComplexHeader.pos, OuterComplexHeader.size) # 0

\* C13: when a sub-section's header_size + size is more than what remains of
\* the complex header, the parser returns an IO error: it does not fault on
\* the subtraction, and it reads nothing after the overrunning sub-section.
C13_RemainingNeverNegative ==
    OverrunFrame =>
        /\ result = IoError
        /\ pos <= OverrunEnd(input, OuterComplexHeader.pos, OuterComplexHeader.size)

(***************************************************************************)
(* The entry counts of the tables of a complex header.                     *)
(***************************************************************************)
\* what the parser holds after the sub-sections of layout l: the last
\* compressor table, all size entries, all offset entries
LastCompressorTable(l) ==
    LET of_tag == SelectSeq(l.subs,
                            LAMBDA s : s.tag = HAP_SECITON_CHUNK_SECOND_STAGE_COMPRESSOR_TABLE)
    IN IF of_tag = <<>> THEN <<>> ELSE of_tag[Len(of_tag)].payload
SizeEntries(l) == U32s(TableBytes(l, HAP_SECTION_CHUNK_SIZE_TABLE))
OffsetEntries(l) == U32s(TableBytes(l, HAP_SECTION_CHUNK_OFFSET_TABLE))

\* every table of l is taken by the parser
TablesAccepted(l) ==
    \A i \in 1..Len(l.subs) :
        CASE l.subs[i].tag = HAP_SECITON_CHUNK_SECOND_STAGE_COMPRESSOR_TABLE ->
                 \A j \in 1..Len(l.subs[i].payload) : l.subs[i].payload[j] \in {10, 11}
          [] l.subs[i].tag \in {HAP_SECTION_CHUNK_SIZE_TABLE, HAP_SECTION_CHUNK_OFFSET_TABLE} ->
                 Len(l.subs[i].payload) % 4 = 0
          [] OTHER -> TRUE

CountsAgree(l) ==
    /\ Len(LastCompressorTable(l)) = Len(SizeEntries(l))
    /\ OffsetEntries(l) # <<>> => Len(OffsetEntries(l)) = Len(SizeEntries(l))

\* the input is a complex frame with consistent sizes whose tables the
\* parser takes, and they differ in their number of entries
MismatchedTables ==
    /\ pc = "done"
    /\ Consistent(Layout(input))
    /\ TablesAccepted(Layout(input))
    /\ ~CountsAgree(Layout(input))

\* C14: a complex header whose compressor, size and offset tables differ in
\* their number of entries is rejected with an error: it never decodes to a
\* texture from some of the entries, and it never faults on a table access.
C14_TableCountsAgree == MismatchedTables => result.kind = "err"

(***************************************************************************)
(* The worker pool within one frame.                                       *)
(***************************************************************************)
PoolFrame == build = "threadpool" /\ outer_section.ok /\ IsComplex(outer_section)

\* slot i of the pool decoder holds what chunk i contributes, or nothing yet
SlotInOrder(i) ==
    IF i >= ci THEN buffer[i] = <<>>
    ELSE IF infos[i].compressor = "Snappy"
    THEN buffer[i] \in {<<>>, ChunkOutput(chunk_data, infos[i])}
    ELSE buffer[i] = ChunkRange(chunk_data, infos[i])

\* C15: in the worker-pool decoder every result is placed in the slot of the
\* chunk whose tag it carries and a None chunk fills its own slot, so that,
\* whatever the workers' interleaving, the payload of a frame is the
\* concatenation of the chunk outputs in chunk index order.
C15_PoolChunkOrder ==
    PoolFrame =>
        /\ pc = "submit" => \A i \in 1..Len(infos) : SlotInOrder(i)
        /\ (pc = "done" /\ result.kind = "texture") =>
              result.raw = ChunkedPayload(OuterChunkData)
        /\ ChunkedFrame => result = Single(VariantOf(OuterLow), ChunkedPayload(OuterChunkData))

\* C15 witness: a None chunk and a Snappy chunk after it, the Snappy result
\* received from a worker, both in their slots in the payload
C15_Witness ==
    /\ PoolFrame
    /\ pc = "done"
    /\ Len(infos) = 2
    /\ infos[1].compressor = "None"
    /\ infos[2].compressor = "Snappy"
    /\ received = 1
    /\ result = Single("RGB_DXT1_BC1", <<1, 2>>)

(***************************************************************************)
(* Submission and collection in the worker pool.                           *)
(***************************************************************************)
SnappyCount(chunk_infos) ==
    Cardinality({i \in 1..Len(chunk_infos) : chunk_infos[i].compressor = "Snappy"})

\* the items and results the pool holds: queued, in a worker's hands, sent
InFlight == Len(tx) + Cardinality({w \in 1..ThreadCount : worker[w].item # <<>>}) + Len(rx)

\* decode_texture went through the chunked path of the pool and returned,
\* for a chunk list whose ranges all lie in the chunk data
ChunkedCallReturned ==
    /\ build = "threadpool"
    /\ pc = "done"
    /\ cur_section.ok
    /\ IsComplex(cur_section)
    /\ ci > 0
    /\ \A i \in 1..Len(infos) : InRange(chunk_data, infos[i])

\* C16: for a complex frame with k Snappy chunks the pool decoder submits k
\* items and its collector receives k results before the call returns: when
\* it returns, no item of the frame is left in the queue, with a worker or
\* in the result channel.
C16_CollectsEverySubmitted ==
    ChunkedCallReturned =>
        /\ queued_count = SnappyCount(infos)
        /\ received = queued_count
        /\ InFlight = 0

\* a decode_texture call that reached the pool returns (never waits for ever
\* on the result channel), and while the Decoder lives the workers empty the
\* queue
EventuallyReturns == (pc = "submit") ~> (pc # "submit")
QueueDrains == (tx # <<>>) ~> (tx = <<>> \/ dropped)

(***************************************************************************)
(* Dropping the Decoder.                                                   *)
(***************************************************************************)
AllWorkersExited == \A w \in 1..ThreadCount : worker[w].at = "dead"

\* C17: once the Decoder is dropped the work queue is closed, and every
\* worker thread leaves its loop and terminates in the end.
C17_WorkersExitOnDrop == dropped ~> AllWorkersExited

(***************************************************************************)
(* The result channel across the calls made on one Decoder.                *)
(***************************************************************************)
\* the tags of the items and results the pool holds
TagsInFlight ==
    {tx[i][1] : i \in 1..Len(tx)}
    \cup {worker[w].item[1] : w \in {v \in 1..ThreadCount : worker[v].item # <<>>}}
    \cup {rx[i][1] : i \in 1..Len(rx)}

\* C18: over any sequence of decode calls on one pool-backed Decoder, failed
\* calls included, the pool holds nothing of an earlier frame while a frame
\* is submitted and collected: every result the collector can receive
\* carries a tag of the current frame, so that its lookup finds a slot.
C18_NoStaleResults ==
    (build = "threadpool" /\ pc = "submit") =>
        \A id \in TagsInFlight : FindPosition(indices, id) # 0

(***************************************************************************)
(* The lock on the work queue.                                             *)
(***************************************************************************)
\* the tags the pool holds, oldest first: results sent, the item in a
\* worker's hands, items queued
TagsInPipeline ==
    [i \in 1..Len(rx) |-> rx[i][1]]
    \o (IF guard # 0 /\ worker[guard].item # <<>> THEN <<worker[guard].item[1]>> ELSE <<>>)
    \o [i \in 1..Len(tx) |-> tx[i][1]]

\* C19: a worker holds the lock on the work queue from when it starts to
\* wait for an item until it has sent the item's result; so at most one
\* worker at a time is between receiving and sending, whatever the number
\* of workers, and results enter the result channel in submission order.
C19_LockHeldThroughSend ==
    /\ \A w \in 1..ThreadCount :
          /\ worker[w].at \in {"recv", "got"} => guard = w
          /\ worker[w].item # <<>> => worker[w].at = "got"
    /\ Cardinality({w \in 1..ThreadCount : worker[w].at = "got"}) <= 1
    /\ \A i, j \in 1..Len(TagsInPipeline) : i < j => TagsInPipeline[i] < TagsInPipeline[j]

\* C19 witness: one worker decompresses with the lock in its hands while
\* another item is queued and the other workers stand before the lock, and
\* an earlier result is already in the result channel
C19_Witness ==
    /\ guard # 0
    /\ worker[guard].at = "got"
    /\ tx # <<>>
    /\ rx # <<>>
    /\ \A w \in 1..ThreadCount : w # guard => worker[w].at = "loop"

====
